---- MODULE Spec2Model ----
(***************************************************************************)
(* A model of the SignalWire message sync engine of sw-reporting:          *)
(*   - the sms_logs table and the four writers that upsert into it         *)
(*     (sync_logs.save_batch, tasks.bulk_upsert,                           *)
(*      tasks.process_webhook_event, app.trigger_sync),                    *)
(*   - the CLI orchestrator sync_logs.sync_messages with its SIGINT        *)
(*     handler, the on-demand orchestrator app.trigger_sync and the        *)
(*     background task tasks.sync_historical_data with its retries.        *)
(* Values are kept small: times are small integers, JSON strings are       *)
(* strings, a message body is a sequence of characters.                    *)
(***************************************************************************)
EXTENDS Integers, Sequences, FiniteSets, TLC

(***************************************************************************)
(* Python values                                                           *)
(***************************************************************************)
\* Python None in an integer-typed position (a datetime, an error code).
None == -1
\* Python None in a string-typed position (a missing JSON key, SQL NULL).
NoneStr == "None"
\* Python None as a message body (bodies are sequences of characters).
NoBody == <<"None">>

Min(a, b) == IF a <= b THEN a ELSE b

\* s[:n] on a sequence.
Prefix(s, n) == SubSeq(s, 1, Min(Len(s), n))

\* The elements of a sequence.
Range(s) == {s[k] : k \in 1..Len(s)}

(***************************************************************************)
(* Bounds of the model                                                     *)
(***************************************************************************)
\* datetime.now() / utcnow(): the one clock reading of the model.
Now == 3
\* Injected database errors (connection loss) per run.
MaxDbErrors == 1
\* Most pages a finite source holds.
MaxSrcPages == 3
\* Longest batch and longest message list of the upsert specification.
MaxBatchLen == 2

(***************************************************************************)
(* Program constants, scaled down                                          *)
(***************************************************************************)
\* sync_messages: batch_size = 100.
batch_size == 2
\* trigger_sync: max_pages = 5000.
max_pages == 3
\* Pages after which the model stops following a run: one more than the cap
\* of trigger_sync; sync_messages has no page cap of its own.
MaxRunPages == max_pages + 1
\* sync_messages: msg.get('body')[:500].
max_body_length == 2
\* sync_messages: for attempt in range(3).
MaxAttempts == 3

(***************************************************************************)
(* models.SMSLog: the sms_logs table                                       *)
(***************************************************************************)
Columns ==
    {"id", "date_created", "date_sent", "to_number", "from_number", "status",
     "error_code", "error_message", "direction", "price", "body"}

\* nullable=False columns (the primary key included).
NotNullColumns == {"id", "date_created", "status"}

\* The SQL NULL of a column, by the column's type.
NullOf(col) ==
    IF col \in {"date_created", "date_sent", "error_code"} THEN None
    ELSE IF col = "body" THEN NoBody
    ELSE NoneStr

Ids == {"SM1", "SM2"}

\* A row, or a record handed to an insert: a value for every column.
Rec(id, dc, ds, to, from, st, ec, em, dir, pr, body) ==
    [col \in Columns |->
        CASE col = "id" -> id
          [] col = "date_created" -> dc
          [] col = "date_sent" -> ds
          [] col = "to_number" -> to
          [] col = "from_number" -> from
          [] col = "status" -> st
          [] col = "error_code" -> ec
          [] col = "error_message" -> em
          [] col = "direction" -> dir
          [] col = "price" -> pr
          [] col = "body" -> body]

\* The values a row violates a NOT NULL constraint with.
ViolatesNotNull(r) == \E col \in NotNullColumns : r[col] = NullOf(col)

\* Two records of one INSERT ... VALUES carry the same primary key.
HasDuplicateIds(records) ==
    \E a, b \in 1..Len(records) : a # b /\ records[a]["id"] = records[b]["id"]

(***************************************************************************)
(* INSERT ... ON CONFLICT (id) DO UPDATE SET <set_cols> = excluded.<col>   *)
(***************************************************************************)
\* A merge that adds the proposed price to the stored one.
MergeRowAddingPrice(old, new, set_cols) ==
    [col \in Columns |->
        IF col \notin set_cols THEN old[col]
        ELSE IF col = "price" THEN old[col] + new[col]
        ELSE new[col]]

\* The row a conflicting insert leaves: set_cols from the proposed record,
\* every other column from the row of the table.
MergeRow(old, new, set_cols) ==
    [col \in Columns |-> IF col \in set_cols THEN new[col] ELSE old[col]]

\* PostgreSQL rejects the statement as a whole when a proposed row breaks a
\* NOT NULL constraint (checked before the conflict is looked for) or when
\* two proposed rows have the same key ("cannot affect row a second time").
StatementRejected(records) ==
    \/ HasDuplicateIds(records)
    \/ \E k \in 1..Len(records) : ViolatesNotNull(records[k])

RecordWithId(records, id) ==
    records[CHOOSE k \in 1..Len(records) : records[k]["id"] = id]

\* A statement that empties the table before it inserts the records.
TruncateAndInsert(table, records, set_cols) ==
    [id \in {records[k]["id"] : k \in 1..Len(records)} |->
        RecordWithId(records, id)]

\* The table after the statement ran (records have distinct ids).
OnConflictDoUpdate(table, records, set_cols) ==
    LET ids == {records[k]["id"] : k \in 1..Len(records)}
    IN  [id \in DOMAIN table \cup ids |->
            IF id \notin ids THEN table[id]
            ELSE IF id \in DOMAIN table
                 THEN MergeRow(table[id], RecordWithId(records, id), set_cols)
                 ELSE RecordWithId(records, id)]

(***************************************************************************)
(* Conversions of the raw JSON values                                      *)
(***************************************************************************)
\* A raw timestamp is <<format, instant>>: the text of the instant in that
\* format.  "rfc2822" is the remote format, "Mon, 25 Nov 2024 12:34:56 +0000".
DateFormats == {"rfc2822", "iso8601", "garbage", "absent"}
AbsentDate == <<"absent", None>>
RawDate(fmt, t) == <<fmt, t>>

\* msg.get(key) is truthy, for a string, a timestamp and a body.
Truthy(v) == v # NoneStr
TruthyDate(v) == v # AbsentDate
TruthyBody(v) == v # NoBody

\* parse_signalwire_date: email.utils.parsedate_to_datetime, then
\* datetime.fromisoformat, then None.
parse_signalwire_date(date_str) ==
    IF ~TruthyDate(date_str) THEN None
    ELSE IF date_str[1] \in {"rfc2822", "iso8601"} THEN date_str[2]
    ELSE None

\* datetime.fromisoformat(s.replace('Z', '+00:00')) raises ValueError.
FromIsoRaises(date_str) == TruthyDate(date_str) /\ date_str[1] # "iso8601"
FromIso(date_str) == IF TruthyDate(date_str) THEN date_str[2] ELSE None

\* datetime.strptime(s, '%a, %d %b %Y %H:%M:%S %z') succeeds.
StrptimeParses(date_str) == TruthyDate(date_str) /\ date_str[1] = "rfc2822"

\* int(s) and float(s) on the numerals the model uses; any other text raises.
Numerals == {"0", "4", "-4", "30003"}
NumberOf(s) ==
    CASE s = "0" -> 0
      [] s = "4" -> 4
      [] s = "-4" -> 0 - 4
      [] s = "30003" -> 30003
      [] OTHER -> None
Abs(x) == IF x < 0 THEN 0 - x ELSE x

\* str.lower().
Lower(s) ==
    CASE s = "DELIVERED" -> "delivered"
      [] s = "Queued" -> "queued"
      [] OTHER -> s

(***************************************************************************)
(* sync_logs.save_batch                                                    *)
(***************************************************************************)
\* set_ of the CLI upsert.
save_batch_set == {"status", "error_code", "error_message", "date_sent", "price"}

\* A save_batch that writes row by row, each row committed on its own: the
\* first record is in the table when a later one is rejected.
save_batch_rowwise(table, records, db_error) ==
    IF records = <<>> THEN [table |-> table, saved |-> 0, failed |-> FALSE]
    ELSE IF db_error \/ StatementRejected(records)
         THEN [table |-> IF db_error \/ StatementRejected(<<records[1]>>)
                         THEN table
                         ELSE OnConflictDoUpdate(table, <<records[1]>>,
                                  {"status", "error_code", "error_message",
                                   "date_sent", "price"}),
               saved |-> 0, failed |-> TRUE]
         ELSE [table |-> OnConflictDoUpdate(table, records,
                             {"status", "error_code", "error_message",
                              "date_sent", "price"}),
               saved |-> Len(records), failed |-> FALSE]

\* save_batch(session, records, SMSLog): the table it leaves and the count
\* it returns.  db_error: the execute or the commit raised (connection loss).
\* Any exception is caught: rollback, return 0.
save_batch(table, records, db_error) ==
    IF records = <<>> THEN [table |-> table, saved |-> 0, failed |-> FALSE]
    ELSE IF db_error \/ StatementRejected(records)
         THEN [table |-> table, saved |-> 0, failed |-> TRUE]
         ELSE [table |-> OnConflictDoUpdate(table, records, save_batch_set),
               saved |-> Len(records), failed |-> FALSE]

(***************************************************************************)
(* tasks.bulk_upsert                                                       *)
(***************************************************************************)
\* A set_ that overwrites the whole row.
bulk_upsert_set_all == Columns

\* set_ of the background upsert.
bulk_upsert_set == {"status", "error_code", "error_message", "price"}

\* bulk_upsert(session, records): the table it leaves; raised: the
\* exception of execute or commit propagates to the caller.
bulk_upsert(table, records, db_error) ==
    IF records = <<>> THEN [table |-> table, raised |-> FALSE]
    ELSE IF db_error \/ StatementRejected(records)
         THEN [table |-> table, raised |-> TRUE]
         ELSE [table |-> OnConflictDoUpdate(table, records, bulk_upsert_set),
               raised |-> FALSE]

(***************************************************************************)
(* tasks.process_webhook_event                                             *)
(***************************************************************************)
\* set_ of the webhook upsert.
webhook_set == {"status", "error_code", "error_message", "date_sent"}

SentStatuses == {"sent", "delivered", "failed", "undelivered"}

\* A webhook payload (the Twilio-compatible form keys the handler reads).
Event(sid, st, to, from, ec, em, dc, dir, body) ==
    [MessageSid |-> sid, MessageStatus |-> st, To |-> to, From |-> from,
     ErrorCode |-> ec, ErrorMessage |-> em, DateCreated |-> dc,
     Direction |-> dir, Body |-> body]

\* The values(...) of the webhook insert; price is left to its server
\* default, 0.0.
WebhookValues(data) ==
    LET status == Lower(IF Truthy(data.MessageStatus) THEN data.MessageStatus
                        ELSE "unknown")
        error_code == IF Truthy(data.ErrorCode) /\ data.ErrorCode \in Numerals
                      THEN NumberOf(data.ErrorCode) ELSE None
        date_created == IF StrptimeParses(data.DateCreated)
                        THEN data.DateCreated[2] ELSE Now
        date_sent == IF status \in SentStatuses THEN Now ELSE None
    IN  Rec(data.MessageSid, date_created, date_sent, data.To, data.From,
            status, error_code, data.ErrorMessage,
            IF data.Direction = NoneStr THEN "outbound-api" ELSE data.Direction,
            0, data.Body)

\* process_webhook_event(self, data): a payload without MessageSid is
\* dropped; an exception rolls back and re-raises for the task's retry.
process_webhook_event(table, data, db_error) ==
    IF ~Truthy(data.MessageSid)
    THEN [table |-> table, raised |-> FALSE]
    ELSE IF db_error \/ StatementRejected(<<WebhookValues(data)>>)
         THEN [table |-> table, raised |-> TRUE]
         ELSE [table |-> OnConflictDoUpdate(table, <<WebhookValues(data)>>,
                                            webhook_set),
               raised |-> FALSE]

(***************************************************************************)
(* The store step of app.trigger_sync                                      *)
(***************************************************************************)
\* A raw message of the remote API (the JSON keys the code reads).
Msg(sid, dc, ds, to, from, st, ec, em, dir, pr, body) ==
    [sid |-> sid, date_created |-> dc, date_sent |-> ds, to |-> to,
     from |-> from, status |-> st, error_code |-> ec, error_message |-> em,
     direction |-> dir, price |-> pr, body |-> body]

\* Building SMSLog(...) for msg raises (caught per message, the message is
\* neither added nor counted).
TriggerRowRaises(msg) ==
    \/ FromIsoRaises(msg.date_created)
    \/ FromIsoRaises(msg.date_sent)
    \/ Truthy(msg.error_code) /\ msg.error_code \notin Numerals
    \/ Truthy(msg.price) /\ msg.price \notin Numerals

\* The SMSLog(...) trigger_sync adds for msg.
TriggerRow(msg) ==
    Rec(msg.sid, FromIso(msg.date_created), FromIso(msg.date_sent), msg.to,
        msg.from, msg.status,
        IF Truthy(msg.error_code) THEN NumberOf(msg.error_code) ELSE None,
        msg.error_message, msg.direction,
        IF Truthy(msg.price) THEN NumberOf(msg.price) ELSE 0,
        msg.body)

\* The rows session.add() collected: messages not in existing_ids whose
\* SMSLog(...) did not raise, in order.
TriggerAdded(existing_ids, all_messages) ==
    LET kept == SelectSeq(all_messages,
                    LAMBDA m : m.sid \notin existing_ids /\ ~TriggerRowRaises(m))
    IN  [k \in 1..Len(kept) |-> TriggerRow(kept[k])]

\* session.commit() of plain INSERTs: rejected as a whole on a NOT NULL
\* violation, on two rows with one key, or on a key already in the table.
CommitRejected(table, rows) ==
    \/ StatementRejected(rows)
    \/ \E k \in 1..Len(rows) : rows[k]["id"] \in DOMAIN table

\* Lines 653-692 of trigger_sync: existing_ids is the result of the bulk id
\* query, table the table at commit time.  error: the 500 response.
TriggerSave(table, existing_ids, all_messages, db_error) ==
    LET rows == TriggerAdded(existing_ids, all_messages)
        skipped == Cardinality({k \in 1..Len(all_messages) :
                                    all_messages[k].sid \in existing_ids})
    IN  IF db_error \/ CommitRejected(table, rows)
        THEN [table |-> table, error |-> TRUE, saved_count |-> Len(rows),
              skipped_count |-> skipped]
        ELSE [table |-> [id \in DOMAIN table \cup {rows[k]["id"] : k \in 1..Len(rows)} |->
                           IF id \in DOMAIN table THEN table[id]
                           ELSE RecordWithId(rows, id)],
              error |-> FALSE, saved_count |-> Len(rows),
              skipped_count |-> skipped]

(***************************************************************************)
(* sync_logs.sync_messages: the record of a message                        *)
(***************************************************************************)
\* The lookback windows of a run, in clock units (--hours, ?hours=).
Lookbacks == {1}

\* The record built for msg (lines 247-276).
CliRecord(msg) ==
    Rec(msg.sid,
        parse_signalwire_date(msg.date_created),
        parse_signalwire_date(msg.date_sent),
        msg.to, msg.from, msg.status,
        IF Truthy(msg.error_code) /\ msg.error_code \in Numerals
        THEN NumberOf(msg.error_code) ELSE None,
        msg.error_message, msg.direction,
        IF Truthy(msg.price) /\ msg.price \in Numerals
        THEN Abs(NumberOf(msg.price)) ELSE 0,
        IF TruthyBody(msg.body) THEN Prefix(msg.body, max_body_length)
        ELSE NoBody)

\* The message is skipped: it has a creation time, and one before start_time.
CliSkips(msg, start_time) ==
    /\ parse_signalwire_date(msg.date_created) # None
    /\ parse_signalwire_date(msg.date_created) < start_time

(***************************************************************************)
(* The values the model draws its inputs from                              *)
(***************************************************************************)
\* Messages of the remote API: a fresh message with the remote (RFC 2822)
\* timestamps and a body over the cap; the same message once delivered;
\* a failed message with ISO timestamps, created at instant 1; a message
\* with malformed fields.
MsgQueued ==
    Msg("SM1", RawDate("rfc2822", 2), AbsentDate, "+15550001", "+15559000",
        "queued", NoneStr, NoneStr, "outbound-api", NoneStr, <<"h", "e", "y">>)
MsgDelivered ==
    Msg("SM1", RawDate("rfc2822", 2), RawDate("rfc2822", 3), "+15550001",
        "+15559000", "delivered", NoneStr, NoneStr, "outbound-api", "-4",
        <<"h", "e", "y">>)
MsgFailedIso ==
    Msg("SM2", RawDate("iso8601", 1), RawDate("iso8601", 1), "+15550002",
        "+15559000", "failed", "30003", "Unreachable", "outbound-api", "-4",
        <<"y", "o">>)
MsgMalformed ==
    Msg("SM2", RawDate("garbage", None), AbsentDate, "+15550002", "+15559000",
        "DELIVERED", "abc", NoneStr, "inbound", "free", NoBody)
\* A fresh message whose status the upstream spells with a capital, with
\* ISO timestamps, created inside the window.
MsgUpper ==
    Msg("SM1", RawDate("iso8601", 2), AbsentDate, "+15550001", "+15559000",
        "Queued", NoneStr, NoneStr, "outbound-api", NoneStr, <<"h", "i">>)
RawMsgs == {MsgQueued, MsgDelivered, MsgFailedIso, MsgMalformed, MsgUpper}

\* Webhook payloads: a delivery receipt for SM1, and a failure receipt that
\* carries other addresses and no creation time.
Events ==
    {Event("SM1", "DELIVERED", "+15550001", "+15559000", NoneStr, NoneStr,
           RawDate("rfc2822", 2), NoneStr, <<"h", "e", "y">>),
     Event("SM1", "failed", "+15550009", "+15559009", "30003", "Unreachable",
           AbsentDate, "inbound", NoBody)}

\* Normalized records for the upsert specification: an id, one of three
\* settings of the columns no upsert updates (the third breaks NOT NULL) and
\* one of two settings of the columns some upsert updates.
FixedPart(id, i, m) ==
    Rec(id,
        CASE i = 1 -> 1 [] i = 2 -> 2 [] OTHER -> None,
        IF m = 1 THEN None ELSE 2,
        IF i = 1 THEN "+15550001" ELSE "+15550002",
        IF i = 1 THEN "+15559000" ELSE "+15559009",
        IF m = 1 THEN "queued" ELSE "failed",
        IF m = 1 THEN None ELSE 30003,
        IF m = 1 THEN NoneStr ELSE "Unreachable",
        IF i = 1 THEN "outbound-api" ELSE "inbound",
        IF m = 1 THEN 0 ELSE 4,
        IF i = 1 THEN <<"h", "i">> ELSE NoBody)

Records == {FixedPart(id, i, m) : id \in Ids, i \in 1..3, m \in 1..2}
Rows == {r \in Records : ~ViolatesNotNull(r)}

\* Sequences over S of length at most n.
SeqsUpTo(S, n) == UNION {[1..k -> S] : k \in 0..n}

\* Tables: every id absent or present with a row of its own.
Tables ==
    UNION {{t \in [D -> Rows] : \A id \in D : t[id]["id"] = id} : D \in SUBSET Ids}

(***************************************************************************)
(* State                                                                   *)
(***************************************************************************)
VARIABLES
    store,  \* the sms_logs table: id -> row
    up,     \* the upsert specification: the writer under study, its input,
            \* the calls made so far and the tables before and after them;
            \* the re-run specification: the variant that is run, the first
            \* table and the webhook events handled
    src,    \* the remote source of the run: its pages and continuation tokens
    cli,    \* the locals of sync_logs.sync_messages and its position
    trig,   \* the locals of app.trigger_sync and its position
    task,   \* the locals of tasks.sync_historical_data and its position
    h       \* what the run did so far (requests, faults, records handed over)

vars == <<store, up, src, cli, trig, task, h>>

SyncOps == {"save_batch", "bulk_upsert", "trigger_sync"}
Ops == SyncOps \cup {"process_webhook_event"}

\* No writer under study (every specification but the upsert one).
NoUp ==
    [op |-> "none", records |-> <<>>, messages |-> <<>>, data |-> <<>>,
     calls |-> 0, errors |-> 0, init |-> <<>>, before |-> <<>>,
     first |-> <<>>, failed |-> FALSE]

UpInput(op, records, messages, data, table) ==
    [op |-> op, records |-> records, messages |-> messages, data |-> data,
     calls |-> 0, errors |-> 0, init |-> table, before |-> table,
     first |-> table, failed |-> FALSE]

\* next_page_uri is None.
NoUri == 0

\* No sync is running.
IdleSrc == [len |-> 0, endless |-> FALSE, pages |-> <<>>]
IdleCli ==
    [pc |-> "idle", start_time |-> 0, next_page_uri |-> NoUri, attempt |-> 0,
     messages |-> <<>>, i |-> 0, batch |-> <<>>, page |-> 0,
     total_fetched |-> 0, total_saved |-> 0, stop_requested |-> FALSE,
     result |-> "none", env |-> {}]
IdleTrig ==
    [pc |-> "idle", start_time |-> 0, next_page_uri |-> NoUri,
     all_messages |-> <<>>, page_count |-> 0, existing_ids |-> {},
     saved_count |-> 0, skipped_count |-> 0, hit_limit |-> FALSE,
     response |-> "none", env |-> {}]
IdleTask ==
    [pc |-> "idle", i |-> 0, batch |-> <<>>, count |-> 0, retries |-> 0,
     result |-> "none"]
NoHistory ==
    [calls |-> 0, tries |-> 0, last |-> "none", faulted |-> FALSE,
     fetch_failed |-> FALSE, empty_seen |-> FALSE, observed |-> FALSE,
     late_fetch |-> FALSE, received |-> {}, due |-> {}, stop_due |-> {},
     handed |-> 0,
     committed |-> 0, written |-> {}, dropped |-> FALSE, db_errors |-> 0,
     probe |-> "none"]

(***************************************************************************)
(* The upsert specification: any table, any input, one writer called twice *)
(***************************************************************************)
InitUpsert ==
    /\ src = IdleSrc /\ cli = IdleCli /\ trig = IdleTrig /\ h = NoHistory
    /\ task = IdleTask
    /\ store \in Tables
    /\ \/ \E op \in {"save_batch", "bulk_upsert"}, records \in SeqsUpTo(Records, MaxBatchLen) :
            up = UpInput(op, records, <<>>, <<>>, store)
       \/ \E messages \in SeqsUpTo(RawMsgs, MaxBatchLen) :
            up = UpInput("trigger_sync", <<>>, messages, <<>>, store)
       \/ \E messages \in SeqsUpTo(RawMsgs, Min(MaxBatchLen, batch_size)) :
            up = UpInput("sync_messages", <<>>, messages, <<>>, store)
       \/ \E data \in Events :
            up = UpInput("process_webhook_event", <<>>, <<>>, <<data>>, store)

\* The harness after a call that left table; failed: the call reported a
\* failure (a zero count for a batch, an exception, the error response).
Called(table, failed, db_error) ==
    [up EXCEPT !.calls = @ + 1,
               !.errors = @ + (IF db_error THEN 1 ELSE 0),
               !.before = store,
               !.first = IF up.calls = 0 THEN table ELSE @,
               !.failed = failed]

CallSaveBatch ==
    /\ up.op = "save_batch" /\ up.calls < 2
    /\ \E db_error \in BOOLEAN :
        LET r == save_batch(store, up.records, db_error)
        IN  /\ store' = r.table
            /\ up' = Called(r.table, r.failed, db_error)
            /\ UNCHANGED <<src, cli, trig, task, h>>

CallBulkUpsert ==
    /\ up.op = "bulk_upsert" /\ up.calls < 2
    /\ \E db_error \in BOOLEAN :
        LET r == bulk_upsert(store, up.records, db_error)
        IN  /\ store' = r.table
            /\ up' = Called(r.table, r.raised, db_error)
            /\ UNCHANGED <<src, cli, trig, task, h>>

CallWebhook ==
    /\ up.op = "process_webhook_event" /\ up.calls < 2
    /\ \E db_error \in BOOLEAN :
        LET r == process_webhook_event(store, up.data[1], db_error)
        IN  /\ store' = r.table
            /\ up' = Called(r.table, r.raised, db_error)
            /\ UNCHANGED <<src, cli, trig, task, h>>

\* The id query and the commit of trigger_sync, back to back.
CallTriggerSave ==
    /\ up.op = "trigger_sync" /\ up.calls < 2
    /\ \E db_error \in BOOLEAN :
        LET r == TriggerSave(store, DOMAIN store, up.messages, db_error)
        IN  /\ store' = r.table
            /\ up' = Called(r.table, r.error, db_error)
            /\ UNCHANGED <<src, cli, trig, task, h>>

\* The batch the for loop of sync_messages builds from messages: the
\* records of the messages the boundary filter keeps, in order.
CliBatch(messages, start_time) ==
    LET kept == SelectSeq(messages, LAMBDA m : ~CliSkips(m, start_time))
    IN  [k \in 1..Len(kept) |-> CliRecord(kept[k])]

\* The for loop of sync_messages over one page of at most batch_size
\* messages, and the save_batch of the batch it built (when full, or else
\* at the final flush; not called for an empty batch).
CallSyncBatch ==
    /\ up.op = "sync_messages" /\ up.calls < 2
    /\ \E db_error \in BOOLEAN, hours \in Lookbacks :
        LET batch == CliBatch(up.messages, Now - hours)
            r == IF batch = <<>>
                 THEN [table |-> store, saved |-> 0, failed |-> FALSE]
                 ELSE save_batch(store, batch, db_error)
        IN  /\ store' = r.table
            /\ up' = Called(r.table, r.failed, db_error)
            /\ UNCHANGED <<src, cli, trig, task, h>>

NextUpsert ==
    \/ CallSaveBatch \/ CallBulkUpsert \/ CallWebhook \/ CallTriggerSave
    \/ CallSyncBatch

SpecUpsert == InitUpsert /\ [][NextUpsert]_vars

(***************************************************************************)
(* Claims about the writers, checked under SpecUpsert                      *)
(***************************************************************************)
\* The columns the data model calls immutable.
ImmutableColumns ==
    {"id", "date_created", "to_number", "from_number", "direction", "body"}

\* The records the writer under study proposes to the table.
Proposed ==
    IF up.op = "trigger_sync"
    THEN [k \in 1..Len(up.messages) |-> TriggerRow(up.messages[k])]
    ELSE IF up.op = "process_webhook_event" THEN <<WebhookValues(up.data[1])>>
    ELSE up.records

\* C1: applying the same batch twice in succession with save_batch or with
\* bulk_upsert leaves the table field for field as applying it once did, for
\* any table and any batch (two calls the database executed).
C1_UpsertIdempotent ==
    (up.op \in {"save_batch", "bulk_upsert"} /\ up.calls = 2 /\ up.errors = 0)
        => store = up.first

\* A batch of two, one id already stored and one new, applied twice and
\* committed: the first call changed the table.
C1_Witness ==
    /\ up.op \in {"save_batch", "bulk_upsert"} /\ up.calls = 2 /\ up.errors = 0
    /\ ~up.failed
    /\ Len(up.records) = 2
    /\ up.records[1]["id"] \in DOMAIN up.init
    /\ up.records[2]["id"] \notin DOMAIN up.init
    /\ up.first # up.init
    /\ up.first[up.records[1]["id"]] # up.init[up.records[1]["id"]]

\* C2: a write never changes id, date_created, to_number, from_number,
\* direction or body of a row that exists, and never removes the row,
\* whatever the incoming record carries for those columns.
C2_ImmutableColumnsKept ==
    [][\A id \in DOMAIN store :
          /\ id \in DOMAIN store'
          /\ \A col \in ImmutableColumns : store'[id][col] = store[id][col]]_vars

\* An upsert or a webhook committed onto an existing row while proposing
\* other addresses, direction and body for it; its status was taken over.
C2_Witness ==
    /\ up.op \in {"save_batch", "bulk_upsert", "process_webhook_event"}
    /\ up.calls = 1 /\ ~up.failed
    /\ \E k \in 1..Len(Proposed) :
        LET new == Proposed[k]
        IN  /\ new["id"] \in DOMAIN up.before
            /\ \A col \in ImmutableColumns \ {"id"} :
                  new[col] # up.before[new["id"]][col]
            /\ new["status"] # up.before[new["id"]]["status"]
            /\ store[new["id"]]["status"] = new["status"]

\* C3 (as claimed): after a sync writer ran without failure, every proposed
\* record whose id was already stored has replaced the row's status,
\* error_code, error_message, date_sent and price, in save_batch,
\* bulk_upsert and trigger_sync alike.
C3_FiveColumnsReplaced ==
    (up.op \in SyncOps /\ up.calls = 1 /\ ~up.failed)
        => \A k \in 1..Len(Proposed) :
              Proposed[k]["id"] \in DOMAIN up.before
                  => \A col \in save_batch_set :
                        store[Proposed[k]["id"]][col] = Proposed[k][col]

\* Every record of the call is in the table: a new id with the proposed row,
\* a stored id with the columns the writer sets.
AllWritten ==
    LET set_cols == CASE up.op = "save_batch" -> save_batch_set
                      [] up.op = "bulk_upsert" -> bulk_upsert_set
                      [] OTHER -> {}
        written == IF up.op = "trigger_sync"
                   THEN TriggerAdded(DOMAIN up.before, up.messages)
                   ELSE up.records
    IN  \A k \in 1..Len(written) :
            LET new == written[k]
            IN  /\ new["id"] \in DOMAIN store
                /\ IF new["id"] \in DOMAIN up.before
                   THEN \A col \in set_cols : store[new["id"]][col] = new[col]
                   ELSE store[new["id"]] = new

\* C4: a batch write is atomic.  After the store call of save_batch,
\* bulk_upsert or trigger_sync, a call that failed left the table as it was
\* before the call, and a call that did not fail wrote every record.
C4_BatchAtomic ==
    (up.op \in SyncOps /\ up.calls >= 1)
        => /\ up.failed => store = up.before
           /\ ~up.failed => AllWritten

\* A batch of two failed although its first record alone is acceptable, and
\* the database raised no connection error: the table is untouched.
C4_Witness ==
    /\ up.op \in {"save_batch", "bulk_upsert"} /\ up.calls = 1 /\ up.errors = 0
    /\ up.failed
    /\ Len(up.records) = 2
    /\ ~StatementRejected(<<up.records[1]>>)
    /\ up.records[1]["id"] \notin DOMAIN up.before
    /\ store = up.before

(***************************************************************************)
(* The remote source                                                       *)
(***************************************************************************)
\* The pages a request can be answered with: an empty page, a page with a
\* new message, a page with an update of that message and a message created
\* before the window, a page with a malformed message.
Pages ==
    {<<>>, <<MsgQueued>>, <<MsgDelivered, MsgFailedIso>>, <<MsgMalformed>>}

\* What one HTTP request can end in: a 2xx answer, a read timeout, an answer
\* with an error status, any other transport error.
Outcomes == {"ok", "timeout", "http_error", "conn_error"}

\* The page a request addresses: the first page when it carries no token.
PageAsked(next_page_uri) == IF next_page_uri = NoUri THEN 1 ELSE next_page_uri

\* The answers to a request for page k: the page of a source whose content
\* is known (src.pages), any page of a source that changes between requests.
PagesAt(k) == IF src.pages = <<>> THEN Pages ELSE {src.pages[k]}

\* The source a run meets and the source after the run: a source whose
\* content is known stays as it is from run to run.
Connect(len, endless) ==
    IF src.pages # <<>> THEN src
    ELSE [len |-> len, endless |-> endless, pages |-> <<>>]
Disconnect == IF src.pages # <<>> THEN src ELSE IdleSrc

\* next_page_uri of page k: the following page, None after the last page of
\* a finite source, the first page again for a source that never ends.
TokenOf(k) ==
    IF k < src.len THEN k + 1 ELSE IF src.endless THEN 1 ELSE NoUri

(***************************************************************************)
(* sync_logs.sync_messages                                                 *)
(***************************************************************************)
\* A loop head that fetches whatever the stop flag says.
WhileTrue(stop_requested) == "fetch"

\* while not stop_requested: the position after the test.
WhileNotStopped(stop_requested) == IF stop_requested THEN "flush" ELSE "fetch"

\* A page end that goes back to the loop head without looking at the token.
AfterPageAlwaysLoops(next_page_uri) == "loop"

\* The end of a page: sleep, then leave the loop when there is no next page.
AfterPage(next_page_uri) == IF next_page_uri = NoUri THEN "flush" ELSE "loop"

\* if attempt < 2: a timed-out attempt is followed by another one.
RetryAfterTimeout(attempt) == attempt < MaxAttempts - 1

\* The history after a request that ended in outcome.
Requested(outcome, tries) ==
    [h EXCEPT !.calls = @ + 1, !.tries = tries, !.last = outcome,
              !.faulted = @ \/ outcome # "ok",
              !.late_fetch = @ \/ h.observed]

\* The ids of a sequence of records.
IdsOf(records) == {records[k]["id"] : k \in 1..Len(records)}

\* The database may lose the connection during this call.
DbErrors == IF h.db_errors < MaxDbErrors THEN BOOLEAN ELSE {FALSE}

\* The history after a write of n records that failed or not.
Saved(hist, records, failed, db_error) ==
    [hist EXCEPT !.handed = @ + Len(records),
                 !.committed = @ + (IF failed THEN 0 ELSE Len(records)),
                 !.written = @ \cup (IF failed THEN {} ELSE IdsOf(records)),
                 !.dropped = @ \/ failed,
                 !.db_errors = @ + (IF db_error THEN 1 ELSE 0)]

\* The environment variables of the remote API, and the environments a
\* process can start in: the variables that are set.
ConfigVars ==
    {"SIGNALWIRE_PROJECT_ID", "SIGNALWIRE_AUTH_TOKEN", "SIGNALWIRE_SPACE_URL"}
Envs == SUBSET ConfigVars

\* A validation that forgets the space URL.
validate_config_without_url(env) ==
    {"SIGNALWIRE_PROJECT_ID", "SIGNALWIRE_AUTH_TOKEN"} \subseteq env

\* validate_config: no required variable is missing.
validate_config(env) == \A v \in ConfigVars : v \in env

\* test_connection: one api_request; None on any error.
test_connection(outcome) == outcome = "ok"

\* sys.exit(0 if success else 1), and sys.exit(1) where main gives up
\* before sync_messages is called (result is still "none").
exit_code(result) == IF result = "True" THEN 0 ELSE 1

\* python sync_logs.py --hours N, up to the loop: main validates the
\* configuration, tests the connection and the database session, and exits
\* with 1 when one of them fails; sync_messages then sets the window, the
\* counters and the signal handlers.
StartCli ==
    /\ up.op \in {"none", "sync_messages"}
    /\ cli.pc = "idle" /\ trig.pc = "idle" /\ task.pc = "idle"
    /\ \E env \in Envs, outcome \in Outcomes, session \in BOOLEAN,
          hours \in Lookbacks, len \in 1..MaxSrcPages, endless \in BOOLEAN :
        IF ~validate_config(env)
        THEN /\ src' = Disconnect
             /\ cli' = [IdleCli EXCEPT !.pc = "done", !.env = env]
             /\ h' = NoHistory
        ELSE IF ~test_connection(outcome) \/ ~session
        THEN /\ src' = Disconnect
             /\ cli' = [IdleCli EXCEPT !.pc = "done", !.env = env]
             /\ h' = [NoHistory EXCEPT !.probe = outcome]
        ELSE /\ src' = Connect(len, endless)
             /\ cli' = [IdleCli EXCEPT !.pc = "loop", !.env = env,
                                       !.start_time = Now - hours]
             /\ h' = [NoHistory EXCEPT !.probe = outcome]
    /\ UNCHANGED <<store, up, trig, task>>

\* signal_handler: SIGINT or SIGTERM while the run is under way.
SignalHandler ==
    /\ cli.pc \notin {"idle", "done"} /\ ~cli.stop_requested
    /\ cli' = [cli EXCEPT !.stop_requested = TRUE]
    /\ h' = [h EXCEPT !.stop_due = h.due]
    /\ UNCHANGED <<store, up, src, trig, task>>

\* The head of the while loop.
CliLoop ==
    /\ cli.pc = "loop"
    /\ cli' = [cli EXCEPT !.pc = WhileNotStopped(cli.stop_requested),
                          !.attempt = 0]
    /\ h' = [h EXCEPT !.observed = @ \/ cli.stop_requested,
                      !.tries = 0, !.last = "none"]
    /\ UNCHANGED <<store, up, src, trig, task>>

\* The request answered with a page: its messages and its token are taken;
\* an empty page ends the loop.
CliGotPage(messages, tries) ==
    IF messages = <<>>
    THEN /\ cli' = [cli EXCEPT !.messages = messages,
                               !.next_page_uri = TokenOf(PageAsked(cli.next_page_uri)),
                               !.pc = "flush"]
         /\ h' = [Requested("ok", tries) EXCEPT !.empty_seen = TRUE]
    ELSE /\ cli' = [cli EXCEPT !.messages = messages,
                               !.next_page_uri = TokenOf(PageAsked(cli.next_page_uri)),
                               !.page = @ + 1, !.i = 1, !.pc = "msgs"]
         /\ h' = [Requested("ok", tries) EXCEPT
                      !.received = @ \cup {m.sid : m \in Range(messages)},
                      !.due = @ \cup {m.sid : m \in
                                 {x \in Range(messages) :
                                      ~CliSkips(x, cli.start_time)}}]

\* result is None: "Failed to fetch messages", break.
CliPageFailed(outcome, tries) ==
    /\ cli' = [cli EXCEPT !.pc = "flush"]
    /\ h' = [Requested(outcome, tries) EXCEPT !.fetch_failed = TRUE]

\* The first page: api_request, one request; it returns None on any error.
CliFetchFirst ==
    /\ cli.pc = "fetch" /\ cli.next_page_uri = NoUri /\ cli.page < MaxRunPages
    /\ \E outcome \in Outcomes :
        IF outcome = "ok"
        THEN \E messages \in PagesAt(1) : CliGotPage(messages, 1)
        ELSE CliPageFailed(outcome, 1)
    /\ UNCHANGED <<store, up, src, trig, task>>

\* A continuation page: one attempt of the retry loop.  A read timeout is
\* retried, an error status gives None, any other exception leaves the
\* function through except Exception: return False.
CliFetchNext ==
    /\ cli.pc = "fetch" /\ cli.next_page_uri # NoUri /\ cli.page < MaxRunPages
    /\ \E outcome \in Outcomes :
        CASE outcome = "ok" ->
               \E messages \in PagesAt(cli.next_page_uri) :
                   CliGotPage(messages, cli.attempt + 1)
          [] outcome = "timeout" /\ RetryAfterTimeout(cli.attempt) ->
               /\ cli' = [cli EXCEPT !.attempt = @ + 1]
               /\ h' = Requested(outcome, cli.attempt + 1)
          [] outcome = "conn_error" ->
               /\ cli' = [cli EXCEPT !.pc = "done", !.result = "False"]
               /\ h' = [Requested(outcome, cli.attempt + 1) EXCEPT
                            !.fetch_failed = TRUE]
          [] OTHER -> CliPageFailed(outcome, cli.attempt + 1)
    /\ UNCHANGED <<store, up, src, trig, task>>

\* One turn of for msg in messages: the stop test, the boundary filter, the
\* record, and save_batch when the batch is full.
CliMessage ==
    /\ cli.pc = "msgs"
    /\ LET msg == cli.messages[cli.i]
           nextpc == IF cli.i = Len(cli.messages)
                     THEN AfterPage(cli.next_page_uri) ELSE "msgs"
           batch == Append(cli.batch, CliRecord(msg))
       IN  IF cli.stop_requested
           THEN /\ cli' = [cli EXCEPT !.pc = AfterPage(cli.next_page_uri)]
                /\ h' = [h EXCEPT !.observed = TRUE]
                /\ UNCHANGED store
           ELSE IF CliSkips(msg, cli.start_time)
           THEN /\ cli' = [cli EXCEPT !.i = @ + 1, !.pc = nextpc]
                /\ UNCHANGED <<store, h>>
           ELSE IF Len(batch) >= batch_size
           THEN \E db_error \in DbErrors :
                  LET r == save_batch(store, batch, db_error)
                  IN  /\ store' = r.table
                      /\ cli' = [cli EXCEPT !.total_fetched = @ + 1,
                                            !.total_saved = @ + r.saved,
                                            !.batch = <<>>,
                                            !.i = @ + 1, !.pc = nextpc]
                      /\ h' = Saved(h, batch, r.failed, db_error)
           ELSE /\ cli' = [cli EXCEPT !.total_fetched = @ + 1,
                                      !.batch = batch,
                                      !.i = @ + 1, !.pc = nextpc]
                /\ UNCHANGED <<store, h>>
    /\ UNCHANGED <<up, src, trig, task>>

\* A return that leaves the remaining records in the batch.
CliReturnUnflushed ==
    /\ cli.pc = "flush"
    /\ cli' = [cli EXCEPT !.pc = "done", !.result = "True"]
    /\ UNCHANGED <<store, up, src, trig, task, h>>

\* After the loop: the remaining records are saved, "Sync complete!",
\* return True.
CliFlush ==
    /\ cli.pc = "flush"
    /\ IF cli.batch = <<>>
       THEN /\ cli' = [cli EXCEPT !.pc = "done", !.result = "True"]
            /\ UNCHANGED <<store, h>>
       ELSE \E db_error \in DbErrors :
              LET r == save_batch(store, cli.batch, db_error)
              IN  /\ store' = r.table
                  /\ cli' = [cli EXCEPT !.total_saved = @ + r.saved,
                                        !.pc = "done", !.result = "True"]
                  /\ h' = Saved(h, cli.batch, r.failed, db_error)
    /\ UNCHANGED <<up, src, trig, task>>

\* The process exits.
CliExit ==
    /\ cli.pc = "done"
    /\ cli' = IdleCli /\ src' = Disconnect /\ h' = NoHistory
    /\ UNCHANGED <<store, up, trig, task>>

(***************************************************************************)
(* app.trigger_sync                                                        *)
(***************************************************************************)
\* while page_count < max_pages: the position after the test.
WhilePageCount(page_count) ==
    IF page_count < max_pages THEN "fetch" ELSE "query"

\* if not all([PROJECT_ID, AUTH_TOKEN, SPACE_URL]): the 500 response.
credentials_configured(env) == \A v \in ConfigVars : v \in env

\* GET /api/sync/trigger?hours=N, up to the loop: the credentials are
\* checked first.
StartTrigger ==
    /\ up.op \in {"none", "trigger_sync"}
    /\ cli.pc = "idle" /\ trig.pc = "idle" /\ task.pc = "idle"
    /\ \E env \in Envs, hours \in Lookbacks, len \in 1..MaxSrcPages,
          endless \in BOOLEAN :
        IF ~credentials_configured(env)
        THEN /\ src' = Disconnect
             /\ trig' = [IdleTrig EXCEPT !.pc = "done", !.env = env,
                                         !.response = "error"]
        ELSE /\ src' = Connect(len, endless)
             /\ trig' = [IdleTrig EXCEPT !.pc = WhilePageCount(0),
                                         !.env = env,
                                         !.start_time = Now - hours]
    /\ h' = NoHistory
    /\ UNCHANGED <<store, up, cli, task>>

\* A handler that goes on to save the pages fetched before the failure.
SaveFetchedOnException(all_messages) ==
    IF all_messages # <<>> THEN "query" ELSE "done"

\* except requests.exceptions.RequestException, except Exception: the
\* position after an exception of the loop, the 500 response; all_messages
\* is dropped.
OnRequestException(all_messages) == "done"

\* One turn of the while loop: one request.  raise_for_status and every
\* other exception end in the 500 response; an empty page ends the loop; a
\* page is added to all_messages, and the loop ends on a missing token or
\* at max_pages.
TrigFetch ==
    /\ trig.pc = "fetch" /\ trig.page_count < MaxRunPages
    /\ \E outcome \in Outcomes :
        IF outcome # "ok"
        THEN /\ trig' = [trig EXCEPT !.pc = OnRequestException(trig.all_messages),
                                     !.response = "error"]
             /\ h' = [Requested(outcome, 1) EXCEPT !.fetch_failed = TRUE]
        ELSE \E messages \in PagesAt(PageAsked(trig.next_page_uri)) :
               IF messages = <<>>
               THEN /\ trig' = [trig EXCEPT !.pc = "query"]
                    /\ h' = [Requested("ok", 1) EXCEPT !.empty_seen = TRUE]
               ELSE LET token == TokenOf(PageAsked(trig.next_page_uri))
                    IN  /\ trig' = [trig EXCEPT
                               !.all_messages = @ \o messages,
                               !.page_count = @ + 1,
                               !.next_page_uri = token,
                               !.pc = IF token = NoUri THEN "query"
                                      ELSE WhilePageCount(trig.page_count + 1)]
                        /\ h' = [Requested("ok", 1) EXCEPT
                                    !.received = @ \cup {m.sid : m \in Range(messages)}]
    /\ UNCHANGED <<store, up, src, cli, task>>

\* After the loop: hit_limit, and the bulk query for the ids already stored.
TrigQuery ==
    /\ trig.pc = "query"
    /\ trig' = [trig EXCEPT
           !.hit_limit = trig.page_count >= max_pages,
           !.existing_ids = {m.sid : m \in Range(trig.all_messages)}
                               \cap DOMAIN store,
           !.pc = IF trig.all_messages # <<>> THEN "commit" ELSE "done",
           !.response = IF trig.all_messages # <<>> THEN @ ELSE "success"]
    /\ UNCHANGED <<store, up, src, cli, task, h>>

\* The rows are added and committed in one transaction; a failure is rolled
\* back and answered with the 500 response.
TrigCommit ==
    /\ trig.pc = "commit"
    /\ \E db_error \in DbErrors :
        LET r == TriggerSave(store, trig.existing_ids, trig.all_messages,
                             db_error)
        IN  /\ store' = r.table
            /\ trig' = [trig EXCEPT
                   !.saved_count = r.saved_count,
                   !.skipped_count = r.skipped_count,
                   !.pc = "done",
                   !.response = IF r.error THEN "error" ELSE "success"]
            /\ h' = Saved(h, TriggerAdded(trig.existing_ids, trig.all_messages),
                          r.error, db_error)
    /\ UNCHANGED <<up, src, cli, task>>

\* The response is sent.
TrigExit ==
    /\ trig.pc = "done"
    /\ trig' = IdleTrig /\ src' = Disconnect /\ h' = NoHistory
    /\ UNCHANGED <<store, up, cli, task>>

(***************************************************************************)
(* tasks.sync_historical_data                                              *)
(***************************************************************************)
\* sync_historical_data: batch_size = 1000.
bulk_batch_size == 2
\* @celery.task(bind=True, max_retries=5).
max_retries == 1

\* The messages of pages, in order.
RECURSIVE Flatten(_)
Flatten(pages) ==
    IF pages = <<>> THEN <<>> ELSE Head(pages) \o Flatten(Tail(pages))

\* client.messages.stream(...): the messages of the source, page by page.
Stream == Flatten(src.pages)

\* The positions of the stream a page begins at: the next message is there
\* only after a request.
PageStarts ==
    {1 + Len(Flatten(SubSeq(src.pages, 1, k - 1))) : k \in 1..Len(src.pages)}

\* The attributes of the SDK's message object: a timestamp is the datetime
\* of its RFC 2822 text and None for any other text, an error code the
\* integer of its numeral and None otherwise.
SdkDate(date_str) ==
    IF StrptimeParses(date_str) THEN date_str[2] ELSE None
SdkInt(s) == IF Truthy(s) /\ s \in Numerals THEN NumberOf(s) ELSE None

\* float(msg.price) raises ValueError.
TaskRecordRaises(msg) == Truthy(msg.price) /\ msg.price \notin Numerals

\* The record built for msg (lines 142-154).
TaskRecord(msg) ==
    Rec(msg.sid, SdkDate(msg.date_created), SdkDate(msg.date_sent),
        msg.to, msg.from,
        IF Truthy(msg.status) THEN Lower(msg.status) ELSE "unknown",
        SdkInt(msg.error_code), msg.error_message, msg.direction,
        IF Truthy(msg.price) THEN NumberOf(msg.price) ELSE 0,
        msg.body)

\* except Exception: raise self.retry(exc=exc, countdown=60).  The task is
\* scheduled again while it has retries left, and fails for good otherwise;
\* the batch in memory is gone.
Retry(t) ==
    IF t.retries < max_retries
    THEN [t EXCEPT !.pc = "retry"]
    ELSE [t EXCEPT !.pc = "done", !.result = "failed"]

\* The worker takes sync_historical_data from the queue: the client, the
\* session, the window and the counters.
StartTask ==
    /\ up.op = "sync_historical_data"
    /\ cli.pc = "idle" /\ trig.pc = "idle" /\ task.pc = "idle"
    /\ task' = [IdleTask EXCEPT !.pc = "stream", !.i = 1]
    /\ h' = NoHistory
    /\ UNCHANGED <<store, up, src, cli, trig>>

\* One turn of for msg in stream: the request when a page begins, the
\* record, the count, and bulk_upsert when the batch is full.  An exception
\* of the request, of float() or of bulk_upsert ends the attempt.
TaskMessage ==
    /\ task.pc = "stream" /\ task.i <= Len(Stream)
    /\ \E outcome \in (IF task.i \in PageStarts THEN Outcomes ELSE {"ok"}) :
        LET msg == Stream[task.i]
            hist == IF task.i \in PageStarts THEN Requested(outcome, 1) ELSE h
            batch == Append(task.batch, TaskRecord(msg))
        IN  IF outcome # "ok"
            THEN /\ task' = Retry(task)
                 /\ h' = [hist EXCEPT !.fetch_failed = TRUE]
                 /\ UNCHANGED store
            ELSE IF TaskRecordRaises(msg)
            THEN /\ task' = Retry(task)
                 /\ h' = hist
                 /\ UNCHANGED store
            ELSE IF Len(batch) >= bulk_batch_size
            THEN \E db_error \in DbErrors :
                   LET r == bulk_upsert(store, batch, db_error)
                   IN  /\ store' = r.table
                       /\ task' = IF r.raised
                                  THEN Retry([task EXCEPT !.count = @ + 1])
                                  ELSE [task EXCEPT !.count = @ + 1,
                                                    !.batch = <<>>,
                                                    !.i = @ + 1]
                       /\ h' = Saved(hist, batch, r.raised, db_error)
            ELSE /\ task' = [task EXCEPT !.count = @ + 1, !.batch = batch,
                                         !.i = @ + 1]
                 /\ h' = hist
                 /\ UNCHANGED store
    /\ UNCHANGED <<up, src, cli, trig>>

\* The stream is exhausted: the remaining records are upserted, "Sync
\* complete".
TaskFlush ==
    /\ task.pc = "stream" /\ task.i > Len(Stream)
    /\ IF task.batch = <<>>
       THEN /\ task' = [task EXCEPT !.pc = "done", !.result = "ok"]
            /\ UNCHANGED <<store, h>>
       ELSE \E db_error \in DbErrors :
              LET r == bulk_upsert(store, task.batch, db_error)
              IN  /\ store' = r.table
                  /\ task' = IF r.raised THEN Retry(task)
                             ELSE [task EXCEPT !.pc = "done", !.result = "ok"]
                  /\ h' = Saved(h, task.batch, r.raised, db_error)
    /\ UNCHANGED <<up, src, cli, trig>>

\* The retry: the task runs again from its first line.
TaskRetry ==
    /\ task.pc = "retry"
    /\ task' = [IdleTask EXCEPT !.pc = "stream", !.i = 1,
                                !.retries = task.retries + 1]
    /\ h' = NoHistory
    /\ UNCHANGED <<store, up, src, cli, trig>>

\* The task is over.
TaskExit ==
    /\ task.pc = "done"
    /\ task' = IdleTask /\ h' = NoHistory
    /\ UNCHANGED <<store, up, src, cli, trig>>

(***************************************************************************)
(* The specification of the sync runs                                      *)
(***************************************************************************)
Init ==
    /\ store = <<>>
    /\ up = NoUp
    /\ src = IdleSrc /\ cli = IdleCli /\ trig = IdleTrig /\ h = NoHistory
    /\ task = IdleTask

Next ==
    \/ StartCli \/ SignalHandler \/ CliLoop \/ CliFetchFirst \/ CliFetchNext
    \/ CliMessage \/ CliFlush \/ CliExit
    \/ StartTrigger \/ TrigFetch \/ TrigQuery \/ TrigCommit \/ TrigExit

Spec == Init /\ [][Next]_vars

(***************************************************************************)
(* Claims about the sync runs (specification Spec)                         *)
(***************************************************************************)
\* A run is over: sync_messages returned, trigger_sync built its response.
CliDone == cli.pc = "done"
TrigDone == trig.pc = "done"

\* The run so far met a finite source, no failed request, no empty page,
\* no stop request.
CleanRun ==
    /\ src.len > 0 /\ ~src.endless
    /\ ~h.faulted /\ ~h.empty_seen /\ ~cli.stop_requested

\* C5: on a source of N non-empty pages whose last page alone carries no
\* token, with no failure and no stop request, a run never issues more than
\* N requests, and it ends after exactly N requests with the outcome of a
\* completed run: sync_messages returns True, and trigger_sync (N below
\* max_pages, no store failure) answers success.
C5_ExactlyNFetches ==
    CleanRun =>
        /\ h.calls <= src.len
        /\ CliDone => h.calls = src.len /\ cli.page = src.len
                        /\ cli.result = "True"
        /\ TrigDone /\ src.len < max_pages /\ ~h.dropped =>
                h.calls = src.len /\ trig.page_count = src.len
                /\ trig.response = "success"

\* A trigger_sync run over a two-page source ended after two requests.
C5_Witness ==
    /\ CleanRun /\ TrigDone /\ ~h.dropped
    /\ src.len = 2 /\ src.len < max_pages /\ h.calls = 2
    /\ trig.response = "success"

\* C6 (as claimed): on a source that returns a token on every page, every
\* orchestrator stops after max_pages pages and reports the limit as hit.
C6_StopsAtPageCap ==
    src.endless =>
        /\ cli.page <= max_pages
        /\ trig.page_count <= max_pages
        /\ TrigDone /\ trig.response = "success" /\ ~h.empty_seen =>
                trig.hit_limit

\* C7 (as claimed): when a run that observed a stop request ends, every
\* record that had been received from the source when the stop was
\* requested, and that the window keeps, is in the store (no batch having
\* failed), and no request followed the observation.
C7_StopKeepsEveryRecord ==
    /\ ~h.late_fetch
    /\ CliDone /\ h.observed /\ ~h.dropped =>
            h.stop_due \subseteq DOMAIN store

\* C7 (amended): once the loop has observed the stop request no request is
\* issued, and when that run ends every record that was appended to the
\* batch has been handed to save_batch.
C7_StopFlushesBuffer ==
    /\ ~h.late_fetch
    /\ CliDone /\ h.observed => cli.total_fetched = h.handed

\* A run was stopped in the middle of a page with a record in the batch:
\* the record was handed over by the final flush, the rest of the page was
\* dropped.
C7_Witness ==
    /\ CliDone /\ h.observed
    /\ cli.total_fetched = 1 /\ h.handed = 1 /\ cli.batch # <<>>
    /\ ~(h.stop_due \subseteq DOMAIN store)

\* C8 (as claimed): a run that ended on a stop request has an outcome that
\* is neither the one of a completed run nor the one of a failed run, and
\* its saved count is the number of records committed.
C8_CancelledOutcomeDistinct ==
    CliDone /\ h.observed =>
        /\ cli.result \notin {"True", "False"}
        /\ cli.total_saved = h.committed

\* C9 (as claimed): a run in which a page could not be fetched ends with
\* the failure outcome: sync_messages returns False, trigger_sync answers
\* with the error response.
C9_FetchFailureEndsFailed ==
    /\ CliDone /\ h.fetch_failed => cli.result = "False"
    /\ TrigDone /\ h.fetch_failed => trig.response = "error"

\* C10 (as claimed): no page is requested more than MaxAttempts times, a
\* timeout before the last attempt leaves the run on the same page for one
\* more attempt, and a timeout of the last attempt fails the page.
C10_ThreeAttemptsPerPage ==
    /\ h.tries <= MaxAttempts
    /\ h.last = "timeout" /\ h.tries < MaxAttempts =>
            ~h.fetch_failed /\ (cli.pc = "fetch" \/ trig.pc = "fetch")
    /\ h.last = "timeout" /\ h.tries = MaxAttempts => h.fetch_failed

(***************************************************************************)
(* Claims about store failures and configuration                           *)
(***************************************************************************)
\* C11 (as claimed): a run in which the store rejected a batch ends with
\* the failure outcome: sync_messages returns False, trigger_sync answers
\* with the error response; it never reports success after dropping a batch.
C11_RejectedBatchHaltsRun ==
    /\ CliDone /\ h.dropped => cli.result = "False"
    /\ TrigDone /\ h.dropped => trig.response = "error"

\* A run started with a required variable missing.
CliMisconfigured == cli.pc # "idle" /\ cli.env # ConfigVars
TrigMisconfigured == trig.pc # "idle" /\ trig.env # ConfigVars

\* Nothing was asked of the remote API and nothing handed to the store.
NothingDone == h.calls = 0 /\ h.handed = 0 /\ h.written = {}

RunStart == IF cli.pc # "idle" THEN cli.start_time ELSE trig.start_time

\* C13 (as claimed): no row a sync run has written was created before the
\* start_time of that run, in the command-line run and in trigger_sync.
C13_NothingBeforeBoundary ==
    \A id \in h.written : store[id]["date_created"] >= RunStart

\* The batch the step at hand passes to save_batch: the batch filled by
\* the current message, or the remaining batch at the final flush.
BatchHanded ==
    IF cli.pc = "flush" THEN cli.batch
    ELSE Append(cli.batch, CliRecord(cli.messages[cli.i]))

\* C14 (as claimed): when sync_messages hands a batch to the store, the
\* database being up and the batch holding no id twice, every record of the
\* batch that has its required fields is in the store afterwards, whatever
\* is wrong with the other records of the batch.
C14_MalformedRecordSkippedAlone ==
    [][(/\ cli.pc \in {"msgs", "flush"}
        /\ h'.handed > h.handed
        /\ h'.db_errors = h.db_errors
        /\ ~HasDuplicateIds(BatchHanded))
       => \A k \in 1..Len(BatchHanded) :
            ~ViolatesNotNull(BatchHanded[k]) =>
                BatchHanded[k]["id"] \in DOMAIN store']_vars

\* price >= 0, and body absent or at most max_body_length long.
WithinLimits(r) ==
    /\ r["price"] >= 0
    /\ r["body"] = NoBody \/ Len(r["body"]) <= max_body_length

\* The rows trigger_sync is about to commit.
TrigRows ==
    IF trig.pc = "commit"
    THEN TriggerAdded(trig.existing_ids, trig.all_messages) ELSE <<>>

\* C15 (as claimed): every record in the batch of sync_messages and every
\* row trigger_sync commits has a price that is not negative and a body
\* that is absent or at most max_body_length long.
C15_PriceAndBodyWithinLimits ==
    /\ \A k \in 1..Len(cli.batch) : WithinLimits(cli.batch[k])
    /\ \A k \in 1..Len(TrigRows) : WithinLimits(TrigRows[k])

(***************************************************************************)
(* Claims about the rows written (specification SpecUpsert)                *)
(***************************************************************************)
\* The status is spelled in lowercase.
IsLower(status) == Lower(status) = status

\* The writers that build their rows from upstream values.
RawOps == {"sync_messages", "trigger_sync", "process_webhook_event"}

\* C16 (as claimed): after sync_messages, trigger_sync or the webhook
\* handler wrote upstream values, every row that is new or whose status
\* changed has a lowercase status.
C16_StatusLowercase ==
    (up.op \in RawOps /\ up.calls >= 1)
        => \A id \in DOMAIN store :
              (id \notin DOMAIN up.init
               \/ store[id]["status"] # up.init[id]["status"])
                  => IsLower(store[id]["status"])

\* Every row of table that has a date_sent has one of the sent statuses.
SentOnlyIfSentStatus(table) ==
    \A id \in DOMAIN table :
        table[id]["date_sent"] # None => table[id]["status"] \in SentStatuses

\* C17 (as claimed): a table in which only rows with a sent, delivered,
\* failed or undelivered status have a date_sent is still such a table
\* after any writer (a sync upsert, trigger_sync, the webhook handler) wrote
\* to it.
C17_SentAtOnlyWhenSent ==
    SentOnlyIfSentStatus(up.init) => SentOnlyIfSentStatus(store)

(***************************************************************************)
(* Claims about the counts a run reports (specification Spec)              *)
(***************************************************************************)
\* C18 (as claimed): the counts a finished run reports add up, fetched =
\* saved + skipped.  trigger_sync reports len(all_messages), saved_count
\* and skipped_count; sync_messages reports total_fetched and total_saved
\* and keeps no skip counter.
C18_CountsAddUp ==
    /\ TrigDone /\ trig.response = "success" =>
            Len(trig.all_messages) = trig.saved_count + trig.skipped_count
    /\ CliDone /\ cli.result = "True" =>
            cli.total_fetched = cli.total_saved

\* The fields of the message are valid: timestamps in a form the API or
\* ISO 8601 writes (date_sent may be absent), numeric error code and price
\* where present.
ValidFields(m) ==
    /\ parse_signalwire_date(m.date_created) # None
    /\ TruthyDate(m.date_sent) => parse_signalwire_date(m.date_sent) # None
    /\ Truthy(m.error_code) => m.error_code \in Numerals
    /\ Truthy(m.price) => m.price \in Numerals

\* No sid occurs twice in messages.
DistinctSids(messages) ==
    \A a, b \in 1..Len(messages) : a # b => messages[a].sid # messages[b].sid

\* C19 (as claimed): a trigger_sync run over a finite source of P pages, P
\* below max_pages, without failed request or database error, whose R
\* records have distinct ids and valid fields and were not in the store,
\* answers success with saved = R, skipped = 0, pages = P and hit_limit
\* false, and the R ids are in the store.
C19_AllRecordsSaved ==
    (/\ TrigDone /\ CleanRun /\ h.db_errors = 0 /\ src.len < max_pages
     /\ trig.all_messages # <<>> /\ trig.existing_ids = {}
     /\ DistinctSids(trig.all_messages)
     /\ \A k \in 1..Len(trig.all_messages) : ValidFields(trig.all_messages[k]))
        => /\ trig.response = "success"
           /\ trig.saved_count = Len(trig.all_messages)
           /\ trig.skipped_count = 0
           /\ trig.page_count = src.len
           /\ ~trig.hit_limit
           /\ \A k \in 1..Len(trig.all_messages) :
                  trig.all_messages[k].sid \in DOMAIN store

(***************************************************************************)
(* The race specification: one page of a sync and a webhook event          *)
(***************************************************************************)
\* Any table; a webhook event that may be delivered (and redelivered) at
\* any moment; a sync that has just received its only page: trigger_sync
\* before its id query, or sync_messages before the first message.
InitRace ==
    /\ src = IdleSrc /\ task = IdleTask
    /\ store \in Tables
    /\ \E data \in Events :
          up = UpInput("process_webhook_event", <<>>, <<>>, <<data>>, store)
    /\ \E messages \in SeqsUpTo(RawMsgs, Min(MaxBatchLen, batch_size)) \ {<<>>},
          hours \in Lookbacks :
          /\ h = [NoHistory EXCEPT
                    !.calls = 1, !.tries = 1, !.last = "ok",
                    !.received = {m.sid : m \in Range(messages)}]
          /\ \/ /\ cli = IdleCli
                /\ trig = [IdleTrig EXCEPT
                             !.pc = "query", !.env = ConfigVars,
                             !.start_time = Now - hours,
                             !.all_messages = messages, !.page_count = 1]
             \/ /\ trig = IdleTrig
                /\ cli = [IdleCli EXCEPT
                            !.pc = "msgs", !.env = ConfigVars,
                            !.start_time = Now - hours,
                            !.messages = messages, !.i = 1, !.page = 1]

NextRace == CallWebhook \/ TrigQuery \/ TrigCommit \/ CliMessage \/ CliFlush

SpecRace == InitRace /\ [][NextRace]_vars

\* The messages of the page, and the event.
RaceMessages ==
    IF trig.pc # "idle" THEN trig.all_messages ELSE cli.messages

\* The webhook event was delivered and the sync is over, the database was
\* up throughout, and the page by itself is acceptable: distinct sids
\* and valid fields, timestamps in the form the variant reads.
RaceOver ==
    /\ up.op = "process_webhook_event" /\ up.calls >= 1
    /\ TrigDone \/ CliDone
    /\ up.errors = 0 /\ h.db_errors = 0
    /\ DistinctSids(RaceMessages)
    /\ \A k \in 1..Len(RaceMessages) :
          /\ ValidFields(RaceMessages[k])
          /\ TrigDone => ~TriggerRowRaises(RaceMessages[k])

\* C20 (as claimed): when a webhook upsert and the write of a sync have
\* interleaved, neither has failed, and where both wrote the same id each
\* field both set carries the value of one of the two writes.
C20_InterleavingSafe ==
    RaceOver =>
        /\ ~up.failed
        /\ TrigDone => trig.response = "success"
        /\ CliDone => ~h.dropped
        /\ CliDone =>
              \A k \in 1..Len(RaceMessages) :
                  LET rec == CliRecord(RaceMessages[k])
                      hook == WebhookValues(up.data[1])
                  IN  (/\ ~CliSkips(RaceMessages[k], cli.start_time)
                       /\ rec["id"] = hook["id"])
                      => \A col \in save_batch_set \cap webhook_set :
                            store[rec["id"]][col] \in {rec[col], hook[col]}

(***************************************************************************)
(* The re-run specification: runs of one variant, one after the other,     *)
(* over a source that does not change                                      *)
(***************************************************************************)
\* Most pages of the source of the re-run specification.
MaxRerunPages == 2

\* The pages of such a source.
RerunPages ==
    {<<>>, <<MsgQueued>>, <<MsgDelivered, MsgFailedIso>>, <<MsgMalformed>>,
     <<MsgUpper>>}

\* The tables the runs start on: the empty one, and one that has a row for
\* SM1 with other addresses and another body than the source reports.
RerunTables == {<<>>, [id \in {"SM1"} |-> FixedPart(id, 2, 1)]}

Variants == {"sync_messages", "trigger_sync", "sync_historical_data"}

\* A table, a source of known pages, and the variant that is run again
\* and again: python sync_logs.py, GET /api/sync/trigger, or the task.
InitRerun ==
    /\ store \in RerunTables
    /\ cli = IdleCli /\ trig = IdleTrig /\ task = IdleTask /\ h = NoHistory
    /\ \E pages \in SeqsUpTo(RerunPages, MaxRerunPages) \ {<<>>} :
          src = [len |-> Len(pages), endless |-> FALSE, pages |-> pages]
    /\ \E op \in Variants : up = UpInput(op, <<>>, <<>>, <<>>, store)

\* Webhook events the worker handles while the runs come and go.
MaxEvents == 1

\* process_webhook_event runs in its worker, at any moment of a run or
\* between two runs.
WebhookArrives ==
    /\ up.op \in Variants /\ up.calls < MaxEvents
    /\ \E data \in Events, db_error \in BOOLEAN :
        /\ store' = process_webhook_event(store, data, db_error).table
        /\ up' = [up EXCEPT !.calls = @ + 1]
    /\ UNCHANGED <<src, cli, trig, task, h>>

NextRerun ==
    \/ Next
    \/ StartTask \/ TaskMessage \/ TaskFlush \/ TaskRetry \/ TaskExit
    \/ WebhookArrives

SpecRerun == InitRerun /\ [][NextRerun]_vars

\* save_batch over records, batch_size at a time, the database being up.
RECURSIVE SaveInBatches(_, _)
SaveInBatches(table, records) ==
    IF records = <<>> THEN table
    ELSE LET n == Min(batch_size, Len(records))
         IN  SaveInBatches(save_batch(table, SubSeq(records, 1, n), FALSE).table,
                           SubSeq(records, n + 1, Len(records)))

\* bulk_upsert over records, bulk_batch_size at a time, the database being up.
RECURSIVE UpsertInBatches(_, _)
UpsertInBatches(table, records) ==
    IF records = <<>> THEN table
    ELSE LET n == Min(bulk_batch_size, Len(records))
         IN  UpsertInBatches(bulk_upsert(table, SubSeq(records, 1, n), FALSE).table,
                             SubSeq(records, n + 1, Len(records)))

\* The pages a loop takes that ends at the first empty page (if not
\* messages: break).
RECURSIVE BeforeEmpty(_)
BeforeEmpty(pages) ==
    IF pages = <<>> \/ Head(pages) = <<>> THEN <<>>
    ELSE <<Head(pages)>> \o BeforeEmpty(Tail(pages))

\* The table one complete run leaves, started on table: no failed request,
\* no stop request, no database error.
CompleteSyncMessages(table, pages, start_time) ==
    SaveInBatches(table, CliBatch(Flatten(BeforeEmpty(pages)), start_time))
CompleteTriggerSync(table, pages) ==
    LET taken == BeforeEmpty(pages)
        all_messages == Flatten(SubSeq(taken, 1, Min(Len(taken), max_pages)))
    IN  TriggerSave(table, {m.sid : m \in Range(all_messages)} \cap DOMAIN table,
                    all_messages, FALSE).table
CompleteSyncHistoricalData(table, pages) ==
    LET stream == Flatten(pages)
    IN  UpsertInBatches(table, [k \in 1..Len(stream) |-> TaskRecord(stream[k])])

\* The run at hand is a complete one and is over, and no webhook event has
\* been handled.
CompleteRunOver ==
    /\ ~h.faulted /\ h.db_errors = 0 /\ up.calls = 0
    /\ \/ CliDone /\ cli.result = "True" /\ ~cli.stop_requested
       \/ TrigDone /\ trig.env = ConfigVars
       \/ task.pc = "done" /\ task.result = "ok"

\* C21 (as claimed): over a source that does not change, when a complete
\* run is over the store is what one complete run started on the initial
\* store leaves, whatever runs of the same variant (complete, failed,
\* cancelled, retried) came before it, no webhook event having arrived.
C21_RerunSameAsSingleRun ==
    CompleteRunOver =>
        store = CASE up.op = "sync_messages" ->
                       CompleteSyncMessages(up.init, src.pages, cli.start_time)
                  [] up.op = "trigger_sync" ->
                       CompleteTriggerSync(up.init, src.pages)
                  [] OTHER ->
                       CompleteSyncHistoricalData(up.init, src.pages)

LargestBatchSize ==
    IF batch_size >= bulk_batch_size THEN batch_size ELSE bulk_batch_size

\* C23 (as claimed): no step of a run hands more records to one store
\* transaction than the largest configured batch size, in sync_messages and
\* in trigger_sync alike.
C23_TransactionWithinBatchSize ==
    [][h'.handed - h.handed <= LargestBatchSize]_vars

\* The run of sync_messages ended with its pages: on an empty page or on a
\* page without next_page_uri, no request having failed and no stop having
\* been requested.
CliPagesEnded ==
    /\ CliDone /\ cli.result = "True"
    /\ ~h.fetch_failed /\ ~cli.stop_requested

\* The task ended with its stream.
TaskStreamEnded == task.pc = "done" /\ task.result = "ok"

RunMessages == Flatten(BeforeEmpty(src.pages))

\* A complete run of sync_messages or of trigger_sync is over: no failed
\* request, no stop request, no database error, no webhook event, and every
\* message the source returned has fields the variant can read.
ReadableRunOver ==
    /\ ~h.faulted /\ h.db_errors = 0 /\ up.calls = 0
    /\ \/ /\ CliDone /\ cli.result # "none" /\ ~cli.stop_requested
          /\ \A m \in Range(RunMessages) : ValidFields(m)
       \/ /\ TrigDone /\ trig.env = ConfigVars
          /\ \A m \in Range(RunMessages) : ~TriggerRowRaises(m)

\* C25 (as claimed): such a run reports completion and leaves every id the
\* source returned (and the window keeps) in the store, also when the source
\* returned an id more than once.
C25_DuplicateIdsHarmless ==
    ReadableRunOver =>
        /\ CliDone => cli.result = "True" /\ h.due \subseteq DOMAIN store
        /\ TrigDone => /\ trig.response = "success"
                       /\ h.received \subseteq DOMAIN store

(***************************************************************************)
(* Claims about trigger_sync and about the return of sync_messages         *)
(* (specification Spec)                                                    *)
(***************************************************************************)
\* C26 (as claimed): in the success response of trigger_sync hit_limit is
\* true exactly when the run stopped at max_pages pages while the last page
\* it fetched carried a next_page_uri; a source of exactly max_pages pages,
\* the last without next_page_uri, gives hit_limit = false.
C26_HitLimitOnlyWithToken ==
    (TrigDone /\ trig.response = "success") =>
        (trig.hit_limit <=>
            (trig.page_count >= max_pages /\ trig.next_page_uri # NoUri))

\* C27: while trigger_sync runs, the store changes in one step only, the
\* commit that follows the last request and ends the run; and once a
\* request of the run has failed no step of the run changes the store, so
\* the pages fetched before the failure are not saved.
C27_NoWriteBeforeLastFetch ==
    [][trig.pc # "idle" =>
          /\ store' # store => trig.pc = "commit" /\ trig'.pc = "done"
          /\ h.fetch_failed => store' = store /\ trig.pc = "done"]_vars

\* The second request of a run failed after the first had brought a message
\* that trigger_sync can store and the store does not have: the run is over
\* with the error response and the store still lacks the message.
C27_Witness ==
    /\ TrigDone /\ h.fetch_failed /\ h.calls = 2
    /\ trig.response = "error"
    /\ trig.all_messages = <<MsgDelivered, MsgFailedIso>>
    /\ MsgFailedIso.sid \notin DOMAIN store

\* C28 (as claimed): whenever sync_messages has returned, with True or
\* with False, every record that was appended to the batch has been handed
\* to save_batch.
C28_NoRecordLeftInBatch ==
    (CliDone /\ cli.result # "none") => cli.total_fetched = h.handed

====
